---- MODULE Spec2Model ----
\* Model of riak/datatypes/__init__.py: the convergent datatype wrappers
\* Counter, Flag, Register, Set and Map, with Python's attribute lookup
\* (class attributes shared by every instance until an instance assigns its
\* own), Python's call rules (a bound call passes the receiver as the first
\* argument) and Python's exceptions.
EXTENDS Integers, Sequences, FiniteSets, TLC

\* ---------------------------------------------------------------- bounds
\* Number of datatype instances (top-level and nested) ever constructed.
MaxObjs == 3
\* Depth of nested Map.to_op / Map.dirty_value calls the interpreter allows
\* before it raises RecursionError (sys.getrecursionlimit(), scaled down).
MaxDepth == 3

\* Number of instances in the runs that also call the read-only queries and
\* the typed views.
MaxReadObjs == 2

\* ------------------------------------------------------- Python values
None == [t |-> "NoneType"]
PyInt(n) == [t |-> "int", v |-> n]
PyBool(b) == [t |-> "bool", v |-> b]
PyStr(s) == [t |-> "str", v |-> s]
PySet(S) == [t |-> "frozenset", v |-> S]
PyDict(d) == [t |-> "dict", v |-> d]
PyList(s) == [t |-> "list", v |-> s]
PyRef(o) == [t |-> "object", v |-> o]

\* Outcome of a call: it returns val, or raises the exception named exc.
Ok(v) == [exc |-> "", val |-> v]
Raise(e) == [exc |-> e, val |-> None]
\* Outcome of a call that also changes the world.
OkW(w, v) == [w |-> w, exc |-> "", val |-> v]
RaiseW(w, e) == [w |-> w, exc |-> e, val |-> None]

\* isinstance(x, int): bool is a subclass of int.
IsInt(x) == x.t \in {"int", "bool"}
\* isinstance(x, bool)
IsBool(x) == x.t = "bool"
\* isinstance(x, basestring)
IsString(x) == x.t = "str"

\* The registry of type names.
TYPES == {"counter", "flag", "map", "register", "set"}

\* ------------------------------------------------------------- inputs
\* Map keys: the well-formed key of each type, a key with one component and
\* a key whose tag is not in the registry.
KeyCounter == <<"n", "counter">>
KeyFlag == <<"n", "flag">>
KeyMap == <<"n", "map">>
KeyRegister == <<"n", "register">>
KeySet == <<"n", "set">>
KeyShort == <<"n">>
KeyBogus == <<"n", "bogus">>
WellKeys == {KeyCounter, KeyFlag, KeyMap, KeyRegister, KeySet}
BadKeys == {KeyShort, KeyBogus}
\* The keys the caller passes to a Map directly; the keys of the other
\* types reach it through the typed views.
KeyArgs == {KeyFlag, KeyMap, KeyRegister} \cup BadKeys
\* Unqualified names passed to a typed view.
Names == {"n"}
\* Amounts passed to increment / decrement.
Amounts == {PyInt(2), PyStr("a")}
\* Values passed to Register.assign, Set.add and Set.discard.
Elements == {PyStr("a"), PyInt(1)}
\* The same values as a sequence, from which the members of a frozenset value
\* are listed; a value holds no string but "a", so it has one iteration
\* order.
ElemOrder == <<PyStr("a"), PyInt(1)>>
\* Context tokens passed to a constructor (None: no context): a token is
\* passed to Counter, whose context handling is the inherited one that every
\* type shares.
Contexts(type) == IF type = "counter" THEN {None, PyStr("ctx")} ELSE {None}
\* Seeds passed to a constructor (None: no seed).
Seeds(type) ==
  CASE type = "counter" -> {None, PyInt(10), PyStr("a")}
    [] type = "flag" -> {None, PyBool(TRUE)}
    [] type = "register" -> {None, PyStr("a")}
    [] type = "set" -> {None, PySet({"a"})}
    [] type = "map" -> {None, PyDict(<<>>), PyDict(<<[k |-> KeyCounter, o |-> PyInt(10)]>>)}

\* ------------------------------------------------------------- state
VARIABLES
  heap,         \* the instances constructed so far, by identity 1..Len(heap)
  Map_removes,  \* the set object bound to the class attribute Map._removes
  Map_updates,  \* the dict object bound to the class attribute Map._updates
  Map_adds,     \* the set object bound to the class attribute Map._adds
  Set_adds,     \* the set object bound to the class attribute Set._adds
  Set_removes,  \* the set object bound to the class attribute Set._removes
                \* (each container is the sequence of its members in the
                \* order in which it iterates)
  last          \* the most recent call: method, receiver, argument, outcome

vars == <<heap, Map_removes, Map_updates, Map_adds, Set_adds, Set_removes, last>>

Objs == 1..Len(heap)
ObjsOf(type) == {o \in Objs : heap[o].type = type}

\* ------------------------------------------------ sets and dicts
\* The language does not say in what order a set iterates, nor (before
\* Python 3.7) a dict: the interpreter's hash table decides, from the hashes
\* of the members, the hash seed and the insertions and deletions so far. A
\* set is modelled as the sequence of its members, a dict as the sequence of
\* its entries [k, o], each in the order in which the container iterates. A
\* new member takes the place the hash table gives it, which can be any
\* place: the call that inserts it is given the place as slot, the number of
\* members that iterate after the new one (0: the new member comes last, as
\* in an insertion-ordered dict). The members that were there keep their
\* order, and so do the ones that remain after a removal: a hash table moves
\* its members only when it is rebuilt after growing, which takes more
\* insertions than MaxObjs instances allow.
Members(s) == {s[i] : i \in DOMAIN s}
InsertAt(s, e, slot) ==
  LET n == IF slot < Len(s) THEN Len(s) - slot ELSE 0
  IN SubSeq(s, 1, n) \o <<e>> \o SubSeq(s, n + 1, Len(s))
\* set.add(e)
Insert(s, e, slot) == IF e \in Members(s) THEN s ELSE InsertAt(s, e, slot)
\* set.discard(e)
Discard(s, e) == SelectSeq(s, LAMBDA x : x # e)
DictKeys(d) == {d[i].k : i \in DOMAIN d}
DictGet(d, k) == (CHOOSE i \in DOMAIN d : d[i].k = k)
DictVal(d, k) == d[DictGet(d, k)].o
\* d[k] = o
DictSet(d, k, o, slot) ==
  IF k \in DictKeys(d)
  THEN [d EXCEPT ![DictGet(d, k)] = [k |-> k, o |-> o]]
  ELSE InsertAt(d, [k |-> k, o |-> o], slot)
DictDel(d, k) == SelectSeq(d, LAMBDA e : e.k # k)

\* The places of the insertions of one call: updates for an entry put into a
\* dict (_updates, or the dict that Set.to_op builds), adds and removes for a
\* member put into the set _adds and the set _removes.
Slot(pu, pa, pr) == [updates |-> pu, adds |-> pa, removes |-> pr]
\* Every new member last.
AtEnd == Slot(0, 0, 0)
\* The places a new member can take in container s; one place stands for
\* all of them when the call inserts nothing into s.
Places(s, inserts) == 0..(IF inserts THEN Len(s) ELSE 0)

\* The mutable part of the program state, passed through the methods, with
\* the places that the insertions of the call take.
WorldAt(slot) ==
  [heap |-> heap, removes |-> Map_removes, updates |-> Map_updates,
   adds |-> Map_adds, sadds |-> Set_adds, sremoves |-> Set_removes,
   slot |-> slot]
World == WorldAt(AtEnd)

\* -------------------------------------------------- class attributes
\* The value of the class attribute _value that an instance without its own
\* _value reads: Datatype None, Flag False, Register "", Set frozenset(),
\* Map {}.
ClassValue(type) ==
  CASE type = "counter" -> None
    [] type = "flag" -> PyBool(FALSE)
    [] type = "register" -> PyStr("")
    [] type = "set" -> PySet({})
    [] type = "map" -> PyDict(<<>>)

\* A new instance: every attribute still reads the class attribute.
NewInstance(type, context) ==
  [type |-> type, value |-> ClassValue(type), context |-> context,
   increment |-> 0, op |-> None, new_value |-> None]

\* ------------------------------------------------------------ Datatype
\* Datatype.__init__(self, value=None, context=None): with a value it
\* evaluates the name new_value, which is not defined in that scope, and
\* raises NameError before anything is assigned; without one it binds the
\* context and leaves every other attribute to the class.
Datatype_init(type, value, context) ==
  IF value # None
  THEN Raise("NameError")
  ELSE Ok(NewInstance(type, context))

\* Datatype.context: return self._context[:], a slice of the token; None
\* cannot be sliced and raises TypeError.
Datatype_context(h) ==
  IF h.context = None THEN Raise("TypeError") ELSE Ok(h.context)

\* Datatype._check_type(new_value): a classmethod with one parameter, which
\* receives the class; called with args = <<class, argument>> it raises
\* TypeError for the extra argument.
Datatype_check_type(args) ==
  IF Len(args) # 1 THEN Raise("TypeError") ELSE Raise("NotImplementedError")

\* Counter._check_type(new_value): classmethod with one parameter.
Counter_check_type(args) ==
  IF Len(args) # 1 THEN Raise("TypeError") ELSE Ok(PyBool(IsInt(args[1])))

\* Flag._check_type(new_value): classmethod with one parameter.
Flag_check_type(args) ==
  IF Len(args) # 1 THEN Raise("TypeError") ELSE Ok(PyBool(IsBool(args[1])))

\* Map._check_type(self, value): classmethod with two parameters; self is the
\* class, so self._check_key(key) is a call without an instance, it raises,
\* and the bare except turns that into False for every key.
Map_check_type(args) ==
  IF Len(args) # 2 THEN Raise("TypeError")
  ELSE Ok(PyBool(args[2].v = <<>>))

\* self._check_type: Register and Set define _check_value, not _check_type,
\* so they inherit Datatype._check_type.
check_type(type, args) ==
  CASE type = "counter" -> Counter_check_type(args)
    [] type = "flag" -> Flag_check_type(args)
    [] type = "map" -> Map_check_type(args)
    [] OTHER -> Datatype_check_type(args)

\* Datatype._raise_if_badtype(self, new_value): the bound call
\* self._check_type(new_value) passes the class and new_value.
raise_if_badtype(type, new_value) ==
  LET r == check_type(type, <<PyStr(type), new_value>>)
  IN IF r.exc # "" THEN r
     ELSE IF ~r.val.v THEN Raise("TypeError")
     ELSE Ok(None)

\* ------------------------------------------------------------- Counter
\* Counter.increment(self, amount)
Counter_increment(w, o, amount) ==
  LET r == raise_if_badtype(w.heap[o].type, amount)
  IN IF r.exc # "" THEN RaiseW(w, r.exc)
     ELSE OkW([w EXCEPT !.heap[o].increment = @ + amount.v], None)

\* Counter.decrement(self, amount)
Counter_decrement(w, o, amount) ==
  LET r == raise_if_badtype(w.heap[o].type, amount)
  IN IF r.exc # "" THEN RaiseW(w, r.exc)
     ELSE OkW([w EXCEPT !.heap[o].increment = @ - amount.v], None)

\* Counter.to_op(self)
Counter_to_op(h) ==
  IF ~(h.increment = 0) THEN Ok(PyInt(h.increment)) ELSE Ok(None)

\* Counter.dirty_value: self.value + self._increment; None + int raises
\* TypeError.
Counter_dirty_value(h) ==
  IF h.value.t = "int" THEN Ok(PyInt(h.value.v + h.increment))
  ELSE Raise("TypeError")

\* ---------------------------------------------------------------- Flag
\* Flag.enable with the assignment going to _value instead of _op.
Flag_enable_value(w, o) == OkW([w EXCEPT !.heap[o].value = PyBool(TRUE)], None)

\* Flag.enable(self)
Flag_enable(w, o) == OkW([w EXCEPT !.heap[o].op = PyBool(TRUE)], None)

\* Flag.disable that clears the pending operation: self._op = None.
Flag_disable_clears(w, o) == OkW([w EXCEPT !.heap[o].op = None], None)

\* Flag.disable(self)
Flag_disable(w, o) == OkW([w EXCEPT !.heap[o].op = PyBool(FALSE)], None)

\* Flag.to_op(self)
Flag_to_op(h) == Ok(h.op)

\* Flag.dirty_value
Flag_dirty_value(h) == IF h.op # None THEN Ok(h.op) ELSE Ok(h.value)

\* ------------------------------------------------------------ Register
\* Register.assign(self, new_value)
Register_assign(w, o, new_value) ==
  LET r == raise_if_badtype(w.heap[o].type, new_value)
  IN IF r.exc # "" THEN RaiseW(w, r.exc)
     ELSE OkW([w EXCEPT !.heap[o].new_value = new_value], None)

\* Register.to_op(self)
Register_to_op(h) == IF h.new_value # None THEN Ok(h.new_value) ELSE Ok(None)

\* Register.dirty_value: the condition reads the global name _new_value,
\* which is not defined, and raises NameError.
Register_dirty_value(h) == Raise("NameError")

\* ----------------------------------------------------------------- Set
\* Set._check_element(element): a classmethod with one parameter, called as
\* self._check_element(element) with args = <<class, element>>.
Set_check_element(args) ==
  IF Len(args) # 1 THEN Raise("TypeError")
  ELSE IF ~IsString(args[1]) THEN Raise("TypeError")
  ELSE Ok(None)

\* Set.add(self, element): self._adds is the class's set, changed in place.
Set_add(w, o, element) ==
  LET r == Set_check_element(<<PyStr("set"), element>>)
  IN IF r.exc # "" THEN RaiseW(w, r.exc)
     ELSE OkW([w EXCEPT !.sadds = Insert(@, element, w.slot.adds)], None)

\* Set.discard(self, element)
Set_discard(w, o, element) ==
  LET r == Set_check_element(<<PyStr("set"), element>>)
  IN IF r.exc # "" THEN RaiseW(w, r.exc)
     ELSE OkW([w EXCEPT !.sremoves = Insert(@, element, w.slot.removes)], None)

\* Set.to_op(self)
Set_to_op(w) ==
  LET adds == IF w.sadds # <<>>
              THEN DictSet(<<>>, "adds", PyList(w.sadds), w.slot.updates)
              ELSE <<>>
      changes == IF w.sremoves # <<>>
                 THEN DictSet(adds, "removes", PyList(w.sremoves), w.slot.updates)
                 ELSE adds
  IN IF w.sadds = <<>> /\ w.sremoves = <<>> THEN Ok(None)
     ELSE Ok(PyDict(changes))

\* Set.dirty_value
Set_dirty_value(w, h) ==
  Ok(PySet((h.value.v \ {e.v : e \in Members(w.sremoves)})
           \cup {e.v : e \in Members(w.sadds)}))

\* Set.__contains__(self, element): element in self.value. The members of a
\* frozenset value are strings, so an element of another type is not one.
Set_contains(w, o, element) ==
  Ok(PyBool(IsString(element) /\ element.v \in w.heap[o].value.v))

\* Set.__iter__(self): iter(self.value), read to its end.
Set_iter(w, o) ==
  Ok(PyList(SelectSeq(ElemOrder,
                      LAMBDA e : IsString(e) /\ e.v \in w.heap[o].value.v)))

\* Set.__len__(self): len(self.value)
Set_len(w, o) == Ok(PyInt(Cardinality(w.heap[o].value.v)))

\* ----------------------------------------------------------------- Map
\* Map._check_key(self, key): a key of the wrong length raises TypeError; for
\* an unknown type name the message expression 'invalid datatype: %s'. key[1]
\* reads the attribute key of a string and raises AttributeError.
Map_check_key(key) ==
  IF ~(Len(key) = 2) THEN Raise("TypeError")
  ELSE IF key[2] \notin TYPES THEN Raise("AttributeError")
  ELSE Ok(None)

RECURSIVE value(_, _)
\* Datatype.value: return self._value
Datatype_value(h) == Ok(h.value)

\* Register.value: return self._value[:]
Register_value(h) ==
  IF h.value.t = "str" THEN Ok(h.value) ELSE Raise("TypeError")

\* Map.value: for each key of self._value it reads the nested value property
\* and then calls the result, which is not callable.
Map_value(w, h) ==
  IF h.value.v = <<>> THEN Ok(PyDict(<<>>))
  ELSE LET r == value(w, Head(h.value.v).o)
       IN IF r.exc # "" THEN r ELSE Raise("TypeError")

\* The value property of instance o.
value(w, o) ==
  LET h == w.heap[o]
  IN CASE h.type = "register" -> Register_value(h)
       [] h.type = "map" -> Map_value(w, h)
       [] OTHER -> Datatype_value(h)

\* Map.__contains__ that looks in the base value only.
Map_contains_base_only(w, o, key) ==
  LET ck == Map_check_key(key)
  IN IF ck.exc # "" THEN ck
     ELSE Ok(PyBool(key \in DictKeys(w.heap[o].value.v)))

\* Map.__contains__(self, key)
Map_contains(w, o, key) ==
  LET ck == Map_check_key(key)
  IN IF ck.exc # "" THEN ck
     ELSE Ok(PyBool(key \in DictKeys(w.heap[o].value.v)
                    \/ key \in DictKeys(w.updates)))

\* Map.add with the two pending sets exchanged: the key is discarded from
\* _adds and added to _removes.
Map_add_swapped(w, o, key) ==
  LET ck == Map_check_key(key)
      pv == Map_value(w, w.heap[o])
      new == Datatype_init(key[2], None, None)
      w1 == IF ~(key \in DictKeys(pv.val.v))
            THEN [w EXCEPT !.heap = Append(@, new.val),
                           !.updates = DictSet(@, key, Len(w.heap) + 1, w.slot.updates)]
            ELSE w
  IN IF ck.exc # "" THEN RaiseW(w, ck.exc)
     ELSE IF pv.exc # "" THEN RaiseW(w, pv.exc)
     ELSE OkW([w1 EXCEPT !.adds = Discard(@, key),
                         !.removes = Insert(@, key, w.slot.removes)], None)

\* Map.add(self, key): self._updates, self._removes and self._adds are the
\* class's containers, changed in place.
Map_add(w, o, key) ==
  LET ck == Map_check_key(key)
      pv == Map_value(w, w.heap[o])
      new == Datatype_init(key[2], None, None)
      w1 == IF ~(key \in DictKeys(pv.val.v))
            THEN [w EXCEPT !.heap = Append(@, new.val),
                           !.updates = DictSet(@, key, Len(w.heap) + 1, w.slot.updates)]
            ELSE w
  IN IF ck.exc # "" THEN RaiseW(w, ck.exc)
     ELSE IF pv.exc # "" THEN RaiseW(w, pv.exc)
     ELSE OkW([w1 EXCEPT !.removes = Discard(@, key),
                         !.adds = Insert(@, key, w.slot.adds)], None)

\* Map.__getitem__(self, key)
Map_getitem(w, o, key) ==
  LET ck == Map_check_key(key)
      w1 == [w EXCEPT !.removes = Discard(@, key)]
      base == w.heap[o].value.v
      r == Map_add(w1, o, key)
  IN IF ck.exc # "" THEN RaiseW(w, ck.exc)
     ELSE IF key \in DictKeys(base) THEN OkW(w1, PyRef(DictVal(base, key)))
     ELSE IF r.exc # "" THEN r
     ELSE OkW(r.w, PyRef(DictVal(r.w.updates, key)))

\* Map.__delitem__ without self._adds.discard(key).
Map_delitem_keeps_adds(w, o, key) ==
  LET ck == Map_check_key(key)
  IN IF ck.exc # "" THEN RaiseW(w, ck.exc)
     ELSE IF key \notin DictKeys(w.updates) THEN RaiseW(w, "KeyError")
     ELSE OkW([w EXCEPT !.updates = DictDel(@, key),
                        !.removes = Insert(@, key, w.slot.removes)], None)

\* Map.__delitem__ without del self._updates[key].
Map_delitem_keeps_updates(w, o, key) ==
  LET ck == Map_check_key(key)
      w1 == [w EXCEPT !.adds = Discard(@, key)]
  IN IF ck.exc # "" THEN RaiseW(w, ck.exc)
     ELSE OkW([w1 EXCEPT !.removes = Insert(@, key, w.slot.removes)], None)

\* Map.__delitem__ with self._removes.add(key) moved before
\* del self._updates[key].
Map_delitem_marks_first(w, o, key) ==
  LET ck == Map_check_key(key)
      w1 == [w EXCEPT !.adds = Discard(@, key),
                       !.removes = Insert(@, key, w.slot.removes)]
  IN IF ck.exc # "" THEN RaiseW(w, ck.exc)
     ELSE IF key \notin DictKeys(w1.updates) THEN RaiseW(w1, "KeyError")
     ELSE OkW([w1 EXCEPT !.updates = DictDel(@, key)], None)

\* Map.__delitem__(self, key): del self._updates[key] raises KeyError for a
\* key that is not in _updates, after the discard from _adds.
Map_delitem(w, o, key) ==
  LET ck == Map_check_key(key)
      w1 == [w EXCEPT !.adds = Discard(@, key)]
  IN IF ck.exc # "" THEN RaiseW(w, ck.exc)
     ELSE IF key \notin DictKeys(w1.updates) THEN RaiseW(w1, "KeyError")
     ELSE OkW([w1 EXCEPT !.updates = DictDel(@, key),
                         !.removes = Insert(@, key, w.slot.removes)], None)

\* Map.__iter__(self): iter(self.value), read to its end; the value
\* property is evaluated first and may raise.
Map_iter(w, o) ==
  LET r == Map_value(w, w.heap[o])
  IN IF r.exc # "" THEN r
     ELSE Ok(PyList([i \in DOMAIN r.val.v |-> r.val.v[i].k]))

\* Map.__len__ that counts the pending updates as well.
Map_len_pending(w, o) == Ok(PyInt(Len(w.heap[o].value.v) + Len(w.updates)))

\* Map.__len__(self): len(self._value)
Map_len(w, o) == Ok(PyInt(Len(w.heap[o].value.v)))

\* TypedMapView.__getitem__(self, key) of the view of Map o for datatype.
TypedMapView_getitem(w, o, datatype, key) == Map_getitem(w, o, <<key, datatype>>)

\* TypedMapView.__delitem__ with the two components of the key exchanged.
TypedMapView_delitem_swapped(w, o, datatype, key) == Map_delitem(w, o, <<datatype, key>>)

\* TypedMapView.__delitem__(self, key)
TypedMapView_delitem(w, o, datatype, key) == Map_delitem(w, o, <<key, datatype>>)

\* TypedMapView.add(self, key)
TypedMapView_add(w, o, datatype, key) == Map_add(w, o, <<key, datatype>>)

RECURSIVE TypedMapView_yield(_, _, _, _)
\* The loop of TypedMapView.__iter__ over the keys that remain: each key of
\* the view's datatype is fetched with self.map[key].
TypedMapView_yield(w, o, datatype, keys) ==
  IF keys = <<>> THEN OkW(w, <<>>)
  ELSE IF Head(keys)[2] # datatype
  THEN TypedMapView_yield(w, o, datatype, Tail(keys))
  ELSE LET r == Map_getitem(w, o, Head(keys))
           rest == TypedMapView_yield(r.w, o, datatype, Tail(keys))
       IN IF r.exc # "" THEN r
          ELSE IF rest.exc # "" THEN rest
          ELSE OkW(rest.w, <<r.val>> \o rest.val)

\* TypedMapView.__iter__(self), read to its end: a generator over the keys
\* of self.map.value.
TypedMapView_iter(w, o, datatype) ==
  LET pv == Map_value(w, w.heap[o])
      r == TypedMapView_yield(w, o, datatype,
                              [i \in DOMAIN pv.val.v |-> pv.val.v[i].k])
  IN IF pv.exc # "" THEN RaiseW(w, pv.exc)
     ELSE IF r.exc # "" THEN r
     ELSE OkW(r.w, PyList(r.val))

\* TypedMapView.__len__(self): len(iter(self)); iter(self) makes the
\* generator without running it, and a generator has no len.
TypedMapView_len(w, o, datatype) == RaiseW(w, "TypeError")

RECURSIVE to_op(_, _, _)
RECURSIVE Map_extract_updates(_, _, _)
\* Map._extract_updates(self, d), collected into a list.
Map_extract_updates(w, d, fuel) ==
  IF d = <<>> THEN Ok(<<>>)
  ELSE LET op == to_op(w, Head(d).o, fuel)
           rest == Map_extract_updates(w, Tail(d), fuel)
       IN IF op.exc # "" THEN op
          ELSE IF rest.exc # "" THEN rest
          ELSE Ok((IF op.val # None
                   THEN << <<"update", Head(d).k, op.val>> >>
                   ELSE <<>>) \o rest.val)

\* Map.to_op(self)
Map_to_op(w, h, fuel) ==
  LET adds == [i \in DOMAIN w.adds |-> <<"add", w.adds[i]>>]
      removes == [i \in DOMAIN w.removes |-> <<"remove", w.removes[i]>>]
      value_updates == Map_extract_updates(w, h.value.v, fuel - 1)
      new_updates == Map_extract_updates(w, w.updates, fuel - 1)
  IN IF fuel = 0 THEN Raise("RecursionError")
     ELSE IF value_updates.exc # "" THEN value_updates
     ELSE IF new_updates.exc # "" THEN new_updates
     ELSE LET all_updates == adds \o removes \o value_updates.val \o new_updates.val
          IN IF all_updates # <<>> THEN Ok(PyList(all_updates)) ELSE Ok(None)

\* The to_op method of instance o.
to_op(w, o, fuel) ==
  LET h == w.heap[o]
  IN CASE h.type = "counter" -> Counter_to_op(h)
       [] h.type = "flag" -> Flag_to_op(h)
       [] h.type = "register" -> Register_to_op(h)
       [] h.type = "set" -> Set_to_op(w)
       [] h.type = "map" -> Map_to_op(w, h, fuel)

RECURSIVE dirty_value(_, _, _)
\* Map.dirty_value: for each key it reads the nested dirty_value property and
\* then calls the result, which is not callable; with no entries it deletes
\* every key of _removes from the empty result.
Map_dirty_value(w, h, fuel) ==
  LET entries == h.value.v \o w.updates
      r == dirty_value(w, Head(entries).o, fuel - 1)
  IN IF fuel = 0 THEN Raise("RecursionError")
     ELSE IF entries # <<>> THEN (IF r.exc # "" THEN r ELSE Raise("TypeError"))
     ELSE IF w.removes # <<>> THEN Raise("KeyError")
     ELSE Ok(PyDict(<<>>))

\* The dirty_value property of instance o.
dirty_value(w, o, fuel) ==
  LET h == w.heap[o]
  IN CASE h.type = "counter" -> Counter_dirty_value(h)
       [] h.type = "flag" -> Flag_dirty_value(h)
       [] h.type = "register" -> Register_dirty_value(h)
       [] h.type = "set" -> Set_dirty_value(w, h)
       [] h.type = "map" -> Map_dirty_value(w, h, fuel)

\* -------------------------------------------------------- the program
Call(op, obj, arg, r) ==
  [op |-> op, obj |-> obj, arg |-> arg, exc |-> r.exc, val |-> r.val]

SetWorld(w) ==
  /\ heap' = w.heap
  /\ Map_removes' = w.removes
  /\ Map_updates' = w.updates
  /\ Map_adds' = w.adds
  /\ Set_adds' = w.sadds
  /\ Set_removes' = w.sremoves

ClassState == <<Map_removes, Map_updates, Map_adds, Set_adds, Set_removes>>

Init ==
  /\ heap = <<>>
  /\ Map_removes = <<>>
  /\ Map_updates = <<>>
  /\ Map_adds = <<>>
  /\ Set_adds = <<>>
  /\ Set_removes = <<>>
  /\ last = Call("none", 0, None, Ok(None))

\* The caller constructs an instance: Counter(seed, ctx), Map(), ...
Construct(type, seed, ctx) ==
  /\ Len(heap) < MaxObjs
  /\ LET r == Datatype_init(type, seed, ctx)
     IN IF r.exc # ""
        THEN /\ last' = Call("init", 0, <<PyStr(type), seed, ctx>>, r)
             /\ UNCHANGED heap
        ELSE /\ heap' = Append(heap, r.val)
             /\ last' = Call("init", Len(heap) + 1, <<PyStr(type), seed, ctx>>,
                             Ok(PyRef(Len(heap) + 1)))
  /\ UNCHANGED ClassState

\* A mutation method is called on instance o.
Mutate(name, o, arg, r) ==
  /\ Len(r.w.heap) <= MaxObjs
  /\ SetWorld(r.w)
  /\ last' = Call(name, o, arg, r)

Increment(o, amount) == Mutate("increment", o, amount, Counter_increment(World, o, amount))
Decrement(o, amount) == Mutate("decrement", o, amount, Counter_decrement(World, o, amount))
Enable(o) == Mutate("enable", o, None, Flag_enable(World, o))
Disable(o) == Mutate("disable", o, None, Flag_disable(World, o))
Assign(o, new_value) == Mutate("assign", o, new_value, Register_assign(World, o, new_value))
\* The calls that can insert into a container, with every place the new
\* member can take. m[key] and m.add(key) insert a key that passes the check
\* and is not in the container yet, when there is room for the nested
\* instance; del m[key] reaches self._removes.add(key) only for a key of
\* _updates.
Adds(key, present) ==
  Len(heap) < MaxObjs /\ Map_check_key(key).exc = "" /\ key \notin present

SetAdd(o, element) ==
  \E pa \in Places(Set_adds, element \notin Members(Set_adds)) :
    Mutate("add", o, element, Set_add(WorldAt(Slot(0, pa, 0)), o, element))
SetDiscard(o, element) ==
  \E pr \in Places(Set_removes, element \notin Members(Set_removes)) :
    Mutate("discard", o, element, Set_discard(WorldAt(Slot(0, 0, pr)), o, element))
MapGet(o, key) ==
  \E pu \in Places(Map_updates, Adds(key, DictKeys(Map_updates))) :
    \E pa \in Places(Map_adds, Adds(key, Members(Map_adds))) :
      Mutate("getitem", o, key, Map_getitem(WorldAt(Slot(pu, pa, 0)), o, key))
MapAdd(o, key) ==
  \E pu \in Places(Map_updates, Adds(key, DictKeys(Map_updates))) :
    \E pa \in Places(Map_adds, Adds(key, Members(Map_adds))) :
      Mutate("add", o, key, Map_add(WorldAt(Slot(pu, pa, 0)), o, key))
MapDel(o, key) ==
  \E pr \in Places(Map_removes, key \in DictKeys(Map_updates)) :
    Mutate("delitem", o, key, Map_delitem(WorldAt(Slot(0, 0, pr)), o, key))

\* A read is called on instance o.
Read(name, o, arg, r) ==
  /\ last' = Call(name, o, arg, r)
  /\ UNCHANGED <<heap, ClassState>>

\* to_op that hands the queued adds over and clears them.
ToOp_clearing(o) ==
  /\ last' = Call("to_op", o, None, to_op(World, o, MaxDepth))
  /\ Map_adds' = <<>>
  /\ UNCHANGED <<heap, Map_removes, Map_updates, Set_adds, Set_removes>>

\* The keys of the dict of Set.to_op when it puts 'removes' into it.
Changes == IF Set_adds # <<>> THEN <<"adds">> ELSE <<>>

\* to_op is called on instance o; the entry 'removes' of the dict of
\* Set.to_op takes any place in it.
ToOp(o) ==
  \E pu \in Places(Changes, Set_removes # <<>>) :
    Read("to_op", o, None, to_op(WorldAt(Slot(pu, 0, 0)), o, MaxDepth))

Next ==
  \/ \E type \in TYPES : \E seed \in Seeds(type) : \E ctx \in Contexts(type) :
       Construct(type, seed, ctx)
  \/ \E o \in ObjsOf("counter") : \E amount \in Amounts : Increment(o, amount)
  \/ \E o \in ObjsOf("counter") : \E amount \in Amounts : Decrement(o, amount)
  \/ \E o \in ObjsOf("flag") : Enable(o)
  \/ \E o \in ObjsOf("flag") : Disable(o)
  \/ \E o \in ObjsOf("register") : \E new_value \in Elements : Assign(o, new_value)
  \/ \E o \in ObjsOf("set") : \E element \in Elements : SetAdd(o, element)
  \/ \E o \in ObjsOf("set") : \E element \in Elements : SetDiscard(o, element)
  \/ \E o \in ObjsOf("map") : \E key \in KeyArgs : MapGet(o, key)
  \/ \E o \in ObjsOf("map") : \E key \in KeyArgs : MapAdd(o, key)
  \/ \E o \in ObjsOf("map") : \E key \in KeyArgs : MapDel(o, key)
  \/ \E o \in Objs : ToOp(o)

Spec == Init /\ [][Next]_vars

\* ---------------------------------------- queries and typed views
\* dirty_value that applies the pending removes as it computes.
DirtyValue_clearing(o) ==
  /\ last' = Call("dirty_value", o, None, dirty_value(World, o, MaxDepth))
  /\ Map_removes' = <<>>
  /\ UNCHANGED <<heap, Map_updates, Map_adds, Set_adds, Set_removes>>

\* The dirty_value property of instance o is read.
DirtyValue(o) == Read("dirty_value", o, None, dirty_value(World, o, MaxDepth))

\* element in s, list(s) and len(s) on a Set.
SetContains(o, element) == Read("contains", o, element, Set_contains(World, o, element))
SetIter(o) == Read("iter", o, None, Set_iter(World, o))
SetLen(o) == Read("len", o, None, Set_len(World, o))

\* key in m, list(m) and len(m) on a Map.
MapContains(o, key) == Read("contains", o, key, Map_contains(World, o, key))
MapIter(o) == Read("iter", o, None, Map_iter(World, o))
MapLen(o) == Read("len", o, None, Map_len(World, o))

\* The typed view of Map o for datatype (m.counters, m.flags, m.maps,
\* m.registers, m.sets) is used: view[name], view.add(name), del view[name],
\* list(view), len(view).
ViewGet(o, datatype, name) ==
  \E pu \in Places(Map_updates, Adds(<<name, datatype>>, DictKeys(Map_updates))) :
    \E pa \in Places(Map_adds, Adds(<<name, datatype>>, Members(Map_adds))) :
      Mutate("view_getitem", o, <<name, datatype>>,
             TypedMapView_getitem(WorldAt(Slot(pu, pa, 0)), o, datatype, name))
ViewAdd(o, datatype, name) ==
  \E pu \in Places(Map_updates, Adds(<<name, datatype>>, DictKeys(Map_updates))) :
    \E pa \in Places(Map_adds, Adds(<<name, datatype>>, Members(Map_adds))) :
      Mutate("view_add", o, <<name, datatype>>,
             TypedMapView_add(WorldAt(Slot(pu, pa, 0)), o, datatype, name))
ViewDel(o, datatype, name) ==
  \E pr \in Places(Map_removes, <<name, datatype>> \in DictKeys(Map_updates)) :
    Mutate("view_delitem", o, <<name, datatype>>,
           TypedMapView_delitem(WorldAt(Slot(0, 0, pr)), o, datatype, name))
ViewIter(o, datatype) ==
  Mutate("view_iter", o, datatype, TypedMapView_iter(World, o, datatype))
ViewLen(o, datatype) ==
  Mutate("view_len", o, datatype, TypedMapView_len(World, o, datatype))

\* At most MaxReadObjs instances exist.
Small == Len(heap) <= MaxReadObjs

\* The calls of Next together with the queries and the typed views.
NextReads ==
  \/ Next /\ Small'
  \/ \E o \in Objs : DirtyValue(o)
  \/ \E o \in ObjsOf("set") : \E element \in Elements : SetContains(o, element)
  \/ \E o \in ObjsOf("set") : SetIter(o)
  \/ \E o \in ObjsOf("set") : SetLen(o)
  \/ \E o \in ObjsOf("map") : \E key \in KeyArgs : MapContains(o, key)
  \/ \E o \in ObjsOf("map") : MapIter(o)
  \/ \E o \in ObjsOf("map") : MapLen(o)
  \/ \E o \in ObjsOf("map") : \E datatype \in TYPES : \E name \in Names :
       ViewGet(o, datatype, name) /\ Small'
  \/ \E o \in ObjsOf("map") : \E datatype \in TYPES : \E name \in Names :
       ViewAdd(o, datatype, name) /\ Small'
  \/ \E o \in ObjsOf("map") : \E datatype \in TYPES : \E name \in Names :
       ViewDel(o, datatype, name)
  \/ \E o \in ObjsOf("map") : \E datatype \in TYPES : ViewIter(o, datatype)
  \/ \E o \in ObjsOf("map") : \E datatype \in TYPES : ViewLen(o, datatype)

SpecReads == Init /\ [][NextReads]_vars

\* ------------------------------------------------------------ claims
WorldNext == [heap |-> heap', removes |-> Map_removes', updates |-> Map_updates',
              adds |-> Map_adds', sadds |-> Set_adds', sremoves |-> Set_removes',
              slot |-> AtEnd]

MapMutators == {"getitem", "add", "delitem"}
\* The entries of a Map operation; none when to_op returned None or raised.
EntriesOf(r) ==
  IF r.exc = "" /\ r.val # None THEN {r.val.v[i] : i \in DOMAIN r.val.v} ELSE {}

\* C1: whatever mutation methods have been called, value of every instance
\* is the base value it was constructed with, which for every instance the
\* constructor can produce is the default of its type.
C1_ValueIsBase ==
  \A o \in Objs : value(World, o) = Ok(ClassValue(heap[o].type))

\* C1 witness: a flag was enabled, a map had a key added, and value still
\* reads False and {}.
C1_Witness ==
  \E f \in ObjsOf("flag") : \E m \in ObjsOf("map") :
    /\ heap[f].op = PyBool(TRUE)
    /\ Map_adds # <<>>
    /\ value(World, f) = Ok(PyBool(FALSE))
    /\ value(World, m) = Ok(PyDict(<<>>))

\* C2: a mutation call on one Map changes neither the pending adds, removes
\* and updates that another Map instance reads, nor its to_op.
C2_Isolated ==
  [][\A o1, o2 \in ObjsOf("map") :
       (o1 # o2 /\ last'.obj = o1 /\ last'.op \in MapMutators)
       => /\ <<Map_adds', Map_removes', Map_updates'>> = <<Map_adds, Map_removes, Map_updates>>
          /\ to_op(WorldNext, o2, MaxDepth) = to_op(World, o2, MaxDepth)]_vars

\* The instance that the last call created, 0 if it created none: the result
\* of a constructor, or the nested instance that Map.__getitem__ made.
FreshObj ==
  IF last.exc = "" /\ last.op \in {"init", "getitem"} THEN last.val.v ELSE 0

\* C3: an instance that was just constructed, with no method called on it
\* yet, has no operation: to_op returns None.
C3_FreshHasNoOp ==
  FreshObj # 0 => to_op(World, FreshObj, MaxDepth) = Ok(None)

\* C4: to_op changes nothing, and a second call returns what the first did.
C4_ToOpPure ==
  [][last'.op = "to_op"
     => /\ heap' = heap
        /\ ClassState' = ClassState
        /\ to_op(WorldNext, last'.obj, MaxDepth) = [exc |-> last'.exc, val |-> last'.val]]_vars

\* C4 witness: to_op was called on a Map with queued adds and an enabled
\* nested flag, and returned a list.
C4_Witness ==
  /\ last.op = "to_op"
  /\ last.exc = ""
  /\ heap[last.obj].type = "map"
  /\ \E e \in EntriesOf(last) : e[1] = "update"
  /\ Map_adds # <<>>

\* The net amount a counter reports: 0 when to_op returns None.
CounterNet(w, o) ==
  LET r == to_op(w, o, MaxDepth) IN IF r.val = None THEN 0 ELSE r.val.v

\* C5: increment(a) and decrement(a) with an integer a move the counter's
\* to_op by +a and -a, and dirty_value is the base value plus to_op.
C5_CounterLinear ==
  [][\A o \in ObjsOf("counter") :
       (last'.obj = o /\ last'.op \in {"increment", "decrement"} /\ IsInt(last'.arg))
       => /\ CounterNet(WorldNext, o)
               = CounterNet(World, o)
                 + (IF last'.op = "increment" THEN last'.arg.v ELSE 0 - last'.arg.v)
          /\ dirty_value(WorldNext, o, MaxDepth).exc = ""]_vars

\* C6: no key is both pending removal and pending add or update; getitem and
\* add leave their key out of the removes, delitem leaves its key out of the
\* adds and the updates.
C6_RemoveExcludesAdd ==
  /\ Members(Map_removes) \cap (Members(Map_adds) \cup DictKeys(Map_updates)) = {}
  /\ (last.op \in {"getitem", "add"} /\ heap[last.obj].type = "map" /\ last.exc = "")
       => last.arg \notin Members(Map_removes)
  /\ (last.op = "delitem" /\ last.arg \in WellKeys)
       => last.arg \notin Members(Map_adds) \cup DictKeys(Map_updates)

\* C6 witness: a key that was added has been deleted while another key is
\* still pending add.
C6_Witness ==
  /\ last.op = "delitem"
  /\ last.exc = ""
  /\ last.arg \in Members(Map_removes)
  /\ Map_adds # <<>>

\* C7: delitem with a well-formed key raises nothing and leaves the key in
\* the pending removes.
C7_DeleteAccepted ==
  (last.op = "delitem" /\ last.arg \in WellKeys)
    => (last.exc = "" /\ last.arg \in Members(Map_removes))

\* The seed of a Map whose base value has the counter key.
SeedWithCounter == PyDict(<<[k |-> KeyCounter, o |-> PyInt(10)]>>)

\* C8: a Map can be constructed from a base value that has key k, and after
\* delitem(k) with nothing else queued its dirty_value has no k and its
\* to_op is the list [("remove", k)].
C8_SeededDelete ==
  /\ (last.op = "init" /\ last.arg[2] = SeedWithCounter) => last.exc = ""
  /\ (/\ last.op = "delitem"
      /\ last.arg \in DictKeys(heap[last.obj].value.v)
      /\ Map_adds = <<>> /\ Map_updates = <<>> /\ Members(Map_removes) \subseteq {last.arg})
       => /\ last.exc = ""
          /\ to_op(World, last.obj, MaxDepth) = Ok(PyList(<< <<"remove", last.arg>> >>))
          /\ dirty_value(World, last.obj, MaxDepth).exc = ""
          /\ last.arg \notin DictKeys(dirty_value(World, last.obj, MaxDepth).val.v)

\* C9: right after delitem(k) the Map's to_op has no ("update", k, ...) and
\* no ("add", k) entry, whatever was queued on k's entry before.
C9_DeleteDiscardsNested ==
  (last.op = "delitem" /\ last.arg \in WellKeys)
    => \A e \in EntriesOf(to_op(World, last.obj, MaxDepth)) :
         ~(e[1] \in {"add", "update"} /\ e[2] = last.arg)

\* C9 witness: the flag key was deleted after its nested flag had been
\* enabled, and to_op is just the remove.
C9_Witness ==
  /\ last.op = "delitem"
  /\ last.exc = ""
  /\ last.arg = KeyFlag
  /\ \E f \in ObjsOf("flag") : heap[f].op = PyBool(TRUE)
  /\ to_op(World, last.obj, MaxDepth) = Ok(PyList(<< <<"remove", KeyFlag>> >>))

\* The zero or empty value of each type.
ZeroDefault(type) ==
  CASE type = "counter" -> PyInt(0)
    [] type = "flag" -> PyBool(FALSE)
    [] type = "register" -> PyStr("")
    [] type = "set" -> PySet({})
    [] type = "map" -> PyDict(<<>>)

\* C10: getitem with a well-formed key that is not in the base value, called
\* directly or through the typed view of the key's type, returns a nested
\* instance of the key's type whose value is the zero or empty default of
\* that type, and the key then passes the membership test.
C10_GetCreates ==
  (/\ last.op \in {"getitem", "view_getitem"}
   /\ last.arg \in WellKeys
   /\ last.arg \notin DictKeys(heap[last.obj].value.v))
    => /\ last.exc = ""
       /\ heap[last.val.v].type = last.arg[2]
       /\ value(World, last.val.v) = Ok(ZeroDefault(last.arg[2]))
       /\ Map_contains(World, last.obj, last.arg) = Ok(PyBool(TRUE))

\* C11: after delitem(k), whatever its outcome, a getitem(k) on the same Map
\* succeeds, leaves k out of the pending removes and makes k a member; and
\* every getitem(k) that was called has left k out of the pending removes
\* and a member.
C11_GetAfterDelete ==
  /\ (last.op = "delitem" /\ last.arg \in WellKeys)
       => LET r == Map_getitem(World, last.obj, last.arg)
          IN /\ r.exc = ""
             /\ last.arg \notin Members(r.w.removes)
             /\ Map_contains(r.w, last.obj, last.arg) = Ok(PyBool(TRUE))
  /\ (last.op = "getitem" /\ last.arg \in WellKeys)
       => /\ last.exc = ""
          /\ last.arg \notin Members(Map_removes)
          /\ Map_contains(World, last.obj, last.arg) = Ok(PyBool(TRUE))

\* C11 witness: delitem(k) succeeded and k is pending removal; getitem(k)
\* from here takes k out of the removes and makes it a member.
C11_Witness ==
  /\ last.op = "delitem"
  /\ last.exc = ""
  /\ last.arg \in Members(Map_removes)
  /\ Map_contains(World, last.obj, last.arg) = Ok(PyBool(FALSE))
  /\ LET r == Map_getitem(World, last.obj, last.arg)
     IN /\ last.arg \notin Members(r.w.removes)
        /\ Map_contains(r.w, last.obj, last.arg) = Ok(PyBool(TRUE))

\* The mutation of the nested instance that getitem returned: assign("a")
\* on a register, enable() on a flag.
MutateNested(w, o) ==
  IF w.heap[o].type = "register" THEN Register_assign(w, o, PyStr("a"))
  ELSE Flag_enable(w, o)

\* The operation of the mutated nested instance: "a" for the register, True
\* for the flag.
NestedOp(type) == IF type = "register" THEN PyStr("a") ELSE PyBool(TRUE)

\* C12: on a new empty Map, right after getitem(k) for a register or flag key
\* that was not present, mutating the returned instance succeeds and the
\* Map's to_op is then the one entry ("update", k, nested op), with no
\* ("add", k).
C12_GetThenMutate ==
  (/\ last.op = "getitem"
   /\ last.exc = ""
   /\ last.arg \in {KeyRegister, KeyFlag}
   /\ heap = <<NewInstance("map", None), NewInstance(last.arg[2], None)>>
   /\ Map_removes = <<>>
   /\ DictKeys(Map_updates) = {last.arg})
    => LET r == MutateNested(World, last.val.v)
       IN /\ r.exc = ""
          /\ to_op(r.w, last.obj, MaxDepth)
               = Ok(PyList(<< <<"update", last.arg, NestedOp(last.arg[2])>> >>))

\* The instance that holds key k of Map o in its dirty value: the pending
\* update when there is one, the base entry otherwise.
DirtyEntry(o, k) ==
  IF k \in DictKeys(Map_updates) THEN DictVal(Map_updates, k)
  ELSE DictVal(heap[o].value.v, k)

\* C13: in every state the dirty_value of every Map completes without an
\* error, its keys are the base keys and the updated keys less the pending
\* removes, and each key maps to the dirty value of its nested instance.
C13_DirtyValueTotal ==
  \A o \in ObjsOf("map") :
    LET r == dirty_value(World, o, MaxDepth)
    IN /\ r.exc = ""
       /\ DictKeys(r.val.v)
            = (DictKeys(heap[o].value.v) \cup DictKeys(Map_updates)) \ Members(Map_removes)
       /\ \A k \in DictKeys(r.val.v) :
            LET n == dirty_value(World, DirtyEntry(o, k), MaxDepth)
            IN n.exc = "" /\ DictVal(r.val.v, k) = n.val

\* The update entries of the dict d of nested instances, in d's order: one
\* for each nested instance whose to_op is not None.
UpdateGroup(d) ==
  LET sel == SelectSeq(d, LAMBDA e : to_op(World, e.o, MaxDepth).val # None)
  IN [i \in DOMAIN sel |-> <<"update", sel[i].k, to_op(World, sel[i].o, MaxDepth).val>>]

\* C14: to_op of every Map returns the pending adds, then the pending
\* removes, then the updates of the base value's nested instances, then the
\* updates of the pending updates' nested instances, and returns None
\* exactly when all four groups are empty.
C14_ToOpGroups ==
  \A o \in ObjsOf("map") :
    LET r == to_op(World, o, MaxDepth)
        na == Len(Map_adds)
        nr == Len(Map_removes)
        upd == UpdateGroup(heap[o].value.v) \o UpdateGroup(Map_updates)
    IN /\ r.exc = ""
       /\ \A k \in DictKeys(Map_updates) :
            to_op(World, DictVal(Map_updates, k), MaxDepth).exc = ""
       /\ (r.val = None) <=> (na = 0 /\ nr = 0 /\ upd = <<>>)
       /\ r.val # None
            => /\ Len(r.val.v) = na + nr + Len(upd)
               /\ {r.val.v[i] : i \in 1..na} = {<<"add", k>> : k \in Members(Map_adds)}
               /\ {r.val.v[i] : i \in (na + 1)..(na + nr)}
                    = {<<"remove", k>> : k \in Members(Map_removes)}
               /\ SubSeq(r.val.v, na + nr + 1, Len(r.val.v)) = upd

\* C15: dirty_value of every Set is the base members less the pending
\* removes plus the pending adds, and after add(e) with a string e, whatever
\* was discarded before, e is in dirty_value.
C15_SetAddsWin ==
  /\ \A o \in ObjsOf("set") :
       Set_dirty_value(World, heap[o])
         = Ok(PySet((heap[o].value.v \ {e.v : e \in Members(Set_removes)})
                    \cup {e.v : e \in Members(Set_adds)}))
  /\ (last.op = "add" /\ heap[last.obj].type = "set" /\ IsString(last.arg))
       => /\ last.exc = ""
          /\ last.arg.v \in dirty_value(World, last.obj, MaxDepth).val.v

\* The entry of key k in the dict that Set.to_op returned, None without one.
OpPart(r, k) ==
  IF r.exc = "" /\ r.val # None /\ k \in DictKeys(r.val.v)
  THEN DictVal(r.val.v, k) ELSE None

\* C16: on a Set that was just constructed, add("a"), add("b"), discard("a")
\* all succeed, and then to_op has removes ["a"] and adds ["b"] and
\* dirty_value is {"b"}.
C16_DiscardCancelsAdd ==
  (last.op = "init" /\ last.exc = "" /\ last.arg[1] = PyStr("set"))
    => LET o == last.obj
           r1 == Set_add(World, o, PyStr("a"))
           r2 == Set_add(r1.w, o, PyStr("b"))
           r3 == Set_discard(r2.w, o, PyStr("a"))
       IN /\ r1.exc = "" /\ r2.exc = "" /\ r3.exc = ""
          /\ OpPart(to_op(r3.w, o, MaxDepth), "removes") = PyList(<<PyStr("a")>>)
          /\ OpPart(to_op(r3.w, o, MaxDepth), "adds") = PyList(<<PyStr("b")>>)
          /\ dirty_value(r3.w, o, MaxDepth) = Ok(PySet({"b"}))

\* The names of the mutation methods.
Mutators ==
  {"increment", "decrement", "enable", "disable", "assign", "add", "discard",
   "getitem", "delitem"}

\* C17: a mutation call that raises leaves every instance and every pending
\* add, remove and update as it was.
C17_FailedCallNoEffect ==
  [][(last'.op \in Mutators /\ last'.exc # "")
     => (heap' = heap /\ ClassState' = ClassState)]_vars

\* C17 witness: delitem raised KeyError for a key that was not pending while
\* another key is pending add with its nested instance.
C17_Witness ==
  /\ last.op = "delitem"
  /\ last.exc = "KeyError"
  /\ Map_adds # <<>>
  /\ Map_updates # <<>>
  /\ last.arg \notin Members(Map_removes)

\* C18: getitem, add, delitem and the membership test of a Map raise the
\* invalid-key TypeError exactly when the key does not have two components
\* or its type name is not in the registry.
C18_KeyValidation ==
  /\ (last.op \in MapMutators /\ heap[last.obj].type = "map")
       => (last.arg \in BadKeys <=> last.exc = "TypeError")
  /\ \A o \in ObjsOf("map") : \A k \in KeyArgs :
       k \in BadKeys <=> Map_contains(World, o, k).exc = "TypeError"

\* The shape a seed of each type must have.
WellShaped(type, seed) ==
  CASE type = "counter" -> IsInt(seed)
    [] type = "flag" -> IsBool(seed)
    [] type = "register" -> IsString(seed)
    [] type = "set" -> seed.t = "frozenset"
    [] type = "map" -> seed.t = "dict"

\* C19: a constructor called with a seed succeeds exactly when the seed has
\* the shape its type requires, the value of the new instance is then the
\* seed, and a seed of another shape raises TypeError.
C19_SeedAccepted ==
  (last.op = "init" /\ last.arg[2] # None)
    => IF WellShaped(last.arg[1].v, last.arg[2])
       THEN /\ last.exc = ""
            /\ value(World, last.obj) = Ok(last.arg[2])
       ELSE last.exc = "TypeError"

\* C20: context of every instance returns, without an error, the token its
\* constructor was given, None when it was given none, and after any calls
\* it is still the token the instance holds.
C20_ContextReturned ==
  /\ (last.op = "init" /\ last.exc = "")
       => Datatype_context(heap[last.obj]) = Ok(last.arg[3])
  /\ \A o \in Objs : Datatype_context(heap[o]) = Ok(heap[o].context)

\* C21: increment and decrement succeed with an integer amount and raise
\* TypeError with any other, assign succeeds with a string and raises
\* TypeError with any other value, and add and discard on a Set succeed with
\* a string element and raise TypeError with any other.
C21_TypeChecked ==
  /\ last.op \in {"increment", "decrement"}
       => last.exc = (IF IsInt(last.arg) THEN "" ELSE "TypeError")
  /\ last.op = "assign"
       => last.exc = (IF IsString(last.arg) THEN "" ELSE "TypeError")
  /\ (last.op \in {"add", "discard"} /\ heap[last.obj].type = "set")
       => last.exc = (IF IsString(last.arg) THEN "" ELSE "TypeError")

\* C22: reading dirty_value of any instance, whether it returns or raises,
\* changes no instance and none of the pending adds, removes and updates.
C22_DirtyValuePure ==
  [][last'.op = "dirty_value"
     => (heap' = heap /\ ClassState' = ClassState)]_vars

\* C22 witness: dirty_value was read on a Map while a key is pending
\* removal.
C22_Witness ==
  /\ last.op = "dirty_value"
  /\ heap[last.obj].type = "map"
  /\ Map_removes # <<>>

\* C23: assign with a string succeeds and then to_op and dirty_value of the
\* register are that string; a register that was never assigned has to_op
\* None and dirty_value equal to its value.
C23_RegisterLastWrite ==
  /\ (last.op = "assign" /\ IsString(last.arg))
       => /\ last.exc = ""
          /\ to_op(World, last.obj, MaxDepth) = Ok(last.arg)
          /\ dirty_value(World, last.obj, MaxDepth) = Ok(last.arg)
  /\ \A o \in ObjsOf("register") :
       heap[o].new_value = None
         => /\ to_op(World, o, MaxDepth) = Ok(None)
            /\ dirty_value(World, o, MaxDepth) = value(World, o)

\* to_op and dirty_value of instance o are both v.
Reports(w, o, v) ==
  /\ to_op(w, o, MaxDepth) = Ok(v)
  /\ dirty_value(w, o, MaxDepth) = Ok(v)

\* C24: after enable, to_op and dirty_value of the flag are True, after
\* disable they are False, and from every state the later of two calls
\* decides; a flag that was just constructed has to_op None and dirty_value
\* equal to its value, False.
C24_FlagLastCall ==
  /\ last.op = "enable" => Reports(World, last.obj, PyBool(TRUE))
  /\ last.op = "disable" => Reports(World, last.obj, PyBool(FALSE))
  /\ \A o \in ObjsOf("flag") :
       LET e == Flag_enable(World, o)
           d == Flag_disable(World, o)
       IN /\ e.exc = "" /\ d.exc = ""
          /\ Reports(e.w, o, PyBool(TRUE))
          /\ Reports(d.w, o, PyBool(FALSE))
          /\ Reports(Flag_disable(e.w, o).w, o, PyBool(FALSE))
          /\ Reports(Flag_enable(d.w, o).w, o, PyBool(TRUE))
  /\ (FreshObj # 0 /\ heap[FreshObj].type = "flag")
       => /\ to_op(World, FreshObj, MaxDepth) = Ok(None)
          /\ dirty_value(World, FreshObj, MaxDepth) = Ok(PyBool(FALSE))
          /\ value(World, FreshObj) = Ok(PyBool(FALSE))

\* C24 witness: disable was called on a flag after another flag had been
\* enabled; the first reports False, the other still True.
C24_Witness ==
  /\ last.op = "disable"
  /\ Reports(World, last.obj, PyBool(FALSE))
  /\ \E o \in ObjsOf("flag") : o # last.obj /\ Reports(World, o, PyBool(TRUE))

\* C27: in every state and for every well-formed key k, the membership test
\* of every Map is true exactly when k is a key of the base value or of the
\* pending updates, and a membership test that was called returned that.
C27_MembershipIff ==
  /\ \A o \in ObjsOf("map") : \A k \in WellKeys :
       Map_contains(World, o, k)
         = Ok(PyBool(k \in DictKeys(heap[o].value.v) \cup DictKeys(Map_updates)))
  /\ (last.op = "contains" /\ heap[last.obj].type = "map" /\ last.arg \in WellKeys)
       => /\ last.exc = ""
          /\ last.val = PyBool(last.arg \in DictKeys(heap[last.obj].value.v)
                                              \cup DictKeys(Map_updates))

\* C27 witness: the membership test was called for a key of the pending
\* updates and returned True, while another well-formed key is not a member.
C27_Witness ==
  /\ last.op = "contains"
  /\ heap[last.obj].type = "map"
  /\ last.arg \in DictKeys(Map_updates)
  /\ last.val = PyBool(TRUE)
  /\ \E k \in WellKeys : Map_contains(World, last.obj, k) = Ok(PyBool(FALSE))

\* C28: in every state, whatever getitem, add, delitem and nested calls were
\* made, the iteration of every Map lists the keys of the value it was
\* constructed with and its size is their number, and an iteration or size
\* that was called returned that.
C28_MapQueriesBase ==
  /\ \A o \in ObjsOf("map") :
       /\ Map_iter(World, o) = Ok(PyList(<<>>))
       /\ Map_len(World, o) = Ok(PyInt(Len(ClassValue("map").v)))
  /\ (last.op = "iter" /\ heap[last.obj].type = "map")
       => (last.exc = "" /\ last.val = PyList(<<>>))
  /\ (last.op = "len" /\ heap[last.obj].type = "map")
       => (last.exc = "" /\ last.val = PyInt(0))

\* C28 witness: len was called on a Map that has a pending add and update
\* with an enabled nested flag, and returned 0.
C28_Witness ==
  /\ last.op = "len"
  /\ heap[last.obj].type = "map"
  /\ last.val = PyInt(0)
  /\ Map_adds # <<>>
  /\ \E k \in DictKeys(Map_updates) : heap[DictVal(Map_updates, k)].op = PyBool(TRUE)

\* The entries of the base value of Map o whose key has the type datatype.
BaseEntries(o, datatype) ==
  SelectSeq(heap[o].value.v, LAMBDA e : e.k[2] = datatype)

\* C29: iterating a typed view and taking its size raise nothing, yield one
\* item for each base entry of the view's type, the size being their number,
\* and leave the instances and the pending adds, removes and updates as they
\* were.
C29_ViewQueries ==
  [][last'.op \in {"view_iter", "view_len"}
     => /\ last'.exc = ""
        /\ last'.op = "view_iter"
             => Len(last'.val.v) = Len(BaseEntries(last'.obj, last'.arg))
        /\ last'.op = "view_len"
             => last'.val = PyInt(Len(BaseEntries(last'.obj, last'.arg)))
        /\ heap' = heap
        /\ ClassState' = ClassState]_vars

\* The call r did, from the state before the step, what the step did.
SameAs(r) ==
  /\ WorldNext = [r.w EXCEPT !.slot = AtEnd]
  /\ last'.exc = r.exc
  /\ last'.val = r.val

\* The places the insertions of a call can take in the current state.
SlotsNow ==
  {Slot(pu, pa, pr) : pu \in Places(Map_updates, TRUE),
                      pa \in Places(Map_adds, TRUE),
                      pr \in Places(Map_removes, TRUE)}

\* C30: view[name], view.add(name) and del view[name] on the typed view for
\* datatype return or raise what m[(name, datatype)], m.add((name, datatype))
\* and del m[(name, datatype)] do from the same state, and leave the same
\* state behind.
C30_ViewDelegates ==
  [][/\ last'.op = "view_getitem"
          => \E slot \in SlotsNow :
               SameAs(Map_getitem(WorldAt(slot), last'.obj, last'.arg))
     /\ last'.op = "view_add"
          => \E slot \in SlotsNow :
               SameAs(Map_add(WorldAt(slot), last'.obj, last'.arg))
     /\ last'.op = "view_delitem"
          => \E slot \in SlotsNow :
               SameAs(Map_delitem(WorldAt(slot), last'.obj, last'.arg))]_vars

\* C30 witness: del view[name] succeeded on the view for flags, and the
\* qualified key is pending removal and no longer a member.
C30_Witness ==
  /\ last.op = "view_delitem"
  /\ last.exc = ""
  /\ last.arg = KeyFlag
  /\ KeyFlag \in Members(Map_removes)
  /\ Map_contains(World, last.obj, KeyFlag) = Ok(PyBool(FALSE))

\* The update entries for key k in the to_op of Map o in world w.
UpdatesFor(w, o, k) ==
  {e \in EntriesOf(to_op(w, o, MaxDepth)) : e[1] = "update" /\ e[2] = k}

\* C31: getitem(k) and add(k) for a key k that is in the pending updates
\* keep the nested instance that is stored for k, and every update that the
\* Map's to_op reported for k before the call is reported after it.
C31_ReaccessKeepsEntry ==
  [][(/\ last'.op \in {"getitem", "add"}
      /\ heap[last'.obj].type = "map"
      /\ last'.arg \in DictKeys(Map_updates))
     => /\ last'.exc = ""
        /\ last'.arg \in DictKeys(Map_updates')
        /\ DictVal(Map_updates', last'.arg) = DictVal(Map_updates, last'.arg)
        /\ UpdatesFor(World, last'.obj, last'.arg)
             \subseteq UpdatesFor(WorldNext, last'.obj, last'.arg)]_vars

\* The part of C33 about the pending adds alone: every pending add is a key
\* of the base value or of the pending updates and passes the membership
\* test of every Map.
AddsAreMembers ==
  \A o \in ObjsOf("map") : \A k \in Members(Map_adds) :
    /\ k \in DictKeys(heap[o].value.v) \cup DictKeys(Map_updates)
    /\ Map_contains(World, o, k) = Ok(PyBool(TRUE))

\* C33: in every state every pending add of a Map is a key of the base value
\* or of the pending updates, passes the membership test, is reported by
\* to_op as ("add", k), and has an entry in dirty_value.
C33_AddsHaveEntries ==
  /\ AddsAreMembers
  /\ \A o \in ObjsOf("map") : \A k \in Members(Map_adds) :
       LET r == to_op(World, o, MaxDepth)
           d == dirty_value(World, o, MaxDepth)
       IN /\ r.exc = "" => <<"add", k>> \in EntriesOf(r)
          /\ d.exc = ""
          /\ k \in DictKeys(d.val.v)
====
